---- MODULE Spec2Model ----
(***************************************************************************)
(* Verification model of the Trello criticality agent:                     *)
(*   - AnalysisOrchestrator.analyze_list, step by step, with the SQLAlchemy *)
(*     session (flush / commit / rollback) of the request that runs it;     *)
(*   - ReanalysisService, CacheService, ConfigService, TicketService;       *)
(*   - the board tools (label, comment, move);                              *)
(*   - the upload route with VectorizerService.check_duplicate_file.        *)
(* Optional values (a JSON key that may be missing, a nullable column) are  *)
(* sequences of length 0 or 1.                                              *)
(***************************************************************************)
EXTENDS Integers, Sequences, FiniteSets, TLC

\* ------------------------------------------------------------------ bounds
MaxClock == 1          \* the clock takes the values 0..MaxClock
MaxRuns == 2           \* analyze_list calls per behaviour
MaxReanalyses == 1     \* reanalyze calls per behaviour
MaxConfigOps == 2      \* ConfigService calls per behaviour
MaxBoardLabels == 3       \* add_label calls per behaviour of SpecLabel
MaxUploads == 3        \* uploads per behaviour of SpecUpload

\* ------------------------------------------------------- the small universe
Cards == {"c1", "c2"}
CardOrder == <<"c1", "c2">>
Lists == {"L1", "L2"}
BoardId == "B1"
Null == "null"
None == <<>>
Some(v) == <<v>>

\* ---------------------------------------------------------------- helpers
RECURSIVE SeqFilter(_, _)
SeqFilter(s, S) ==
  IF s = <<>> THEN <<>>
  ELSE IF Head(s) \in S THEN <<Head(s)>> \o SeqFilter(Tail(s), S)
       ELSE SeqFilter(Tail(s), S)

Range(s) == {s[k] : k \in 1..Len(s)}

Min(a, b) == IF a < b THEN a ELSE b

\* str.upper() / str.lower() on the criticality strings the program handles
Upper(s) ==
  CASE s \in {"high", "HIGH"} -> "HIGH"
    [] s \in {"medium", "MEDIUM"} -> "MEDIUM"
    [] s \in {"low", "LOW"} -> "LOW"
    [] s \in {"out_of_context", "OUT_OF_CONTEXT"} -> "OUT_OF_CONTEXT"
    [] OTHER -> s

Lower(s) ==
  CASE s \in {"high", "HIGH"} -> "high"
    [] s \in {"medium", "MEDIUM"} -> "medium"
    [] s \in {"low", "LOW"} -> "low"
    [] s \in {"out_of_context", "OUT_OF_CONTEXT"} -> "out_of_context"
    [] OTHER -> s

\* ------------------------------------------------------------- Config JSON
\* config_data is a JSON object; each key is present (Some) or missing (None)
ConfigKeysSorted == <<"analyzed_at", "boardId", "listId", "targetListId", "token">>

\* json.dumps(d, sort_keys=True): the present keys in sorted order with values
RECURSIVE DumpKeys(_, _)
DumpKeys(d, ks) ==
  IF ks = <<>> THEN <<>>
  ELSE IF d[Head(ks)] = None THEN DumpKeys(d, Tail(ks))
       ELSE <<<<Head(ks), d[Head(ks)][1]>>>> \o DumpKeys(d, Tail(ks))

SortedJson(d) == DumpKeys(d, ConfigKeysSorted)

\* the body the subscription route stores: token, boardId, listId
RouteConfig(l) ==
  [analyzed_at |-> None, boardId |-> Some(BoardId), listId |-> Some(l),
   targetListId |-> None, token |-> Some("tok")]

\* a raw body given to ConfigService.create without token
RawConfig(l, t, at) ==
  [analyzed_at |-> Some(at), boardId |-> Some(BoardId), listId |-> Some(l),
   targetListId |-> Some(t), token |-> None]

\* dict.get(key): the value or None (null)
Get(d, k) == IF d[k] = None THEN Null ELSE d[k][1]

VARIABLES
  now,          \* datetime.utcnow(), a logical clock
  configs,      \* table config, in id order: sequence of config_data
  analyses,     \* table analyse: set of rows
  boards,       \* table analyse_board: set of rows
  tickets,      \* table tickets, committed rows
  history,      \* table ticket_analysis_history, committed rows
  nextId,       \* autoincrement counters of the tables
  cardList,     \* Trello: the list each card is in
  run,          \* the analyze_list call in progress and its db session
  ops,          \* calls made so far, per kind
  jsonTracking, \* whether flush writes a change made inside a loaded JSON
                \* dict: "unknown" until the first such change is made
  sqlMode,      \* sql_mode of the MySQL server: "unknown" until a value that
                \* is no member of an ENUM column is first written
  okSince,      \* <<card, list>> analyzed successfully by a finished scoped
                \* run since the Config last changed (history variable)
  okBefore,     \* <<card, list>> analyzed successfully by a finished scoped
                \* run before targetListId was last set, and in no run since
                \* (history variable)
  cardLabels,   \* Trello: label ids attached to the card (SpecLabel)
  boardLabels,  \* Trello: labels of the board, id -> name (SpecLabel)
  labelCall,    \* the last add_label call and how it ended (SpecLabel)
  chunks,       \* Chroma collection: stored chunks (SpecUpload)
  uploads,      \* responses of the upload route, in call order (SpecUpload)
  response,     \* text the LLM answered for a single card (SpecParse)
  parsed,       \* what analyze_card_criticality made of it (SpecParse)
  stats,        \* what global_stats last returned, as an option (SpecStats)
  other,        \* a second analyze_list call in progress, in another worker,
                \* with its own db session (SpecPair)
  az,           \* the analysis phase of an analyze_list call: batch loop,
                \* Analyzer calls and result loop (SpecBatch)
  sessionError  \* the last call whose Analyse row the database refused
                \* (SpecSession)

vars == <<now, configs, analyses, boards, tickets, history, nextId, cardList,
          run, ops, jsonTracking, sqlMode, okSince, okBefore, cardLabels,
          boardLabels, labelCall, chunks, uploads, response, parsed, stats, other,
          az, sessionError>>

dbVars == <<configs, analyses, boards, tickets, history, nextId>>
labelVars == <<cardLabels, boardLabels, labelCall>>
ghostVars == <<okSince, okBefore>>
ormVars == <<jsonTracking, sqlMode>>
auxVars == <<jsonTracking, sqlMode, okSince, okBefore>>
uploadVars == <<chunks, uploads>>
parseVars == <<response, parsed>>
sideVars == <<parseVars, stats, other, az, sessionError>>

\* ------------------------------------------------------------ table helpers
\* Tickets.get_by_ticket_id: filter_by(ticket_id=...).first(), as an option
get_by_ticket_id(tbl, ext) ==
  LET m == {t \in tbl : t.ticket_id = ext}
  IN IF m = {} THEN None
     ELSE Some(CHOOSE t \in m : \A u \in m : t.id_ticket <= u.id_ticket)

\* Config.get_config_by_board: the first Config row whose boardId matches
get_config_by_board(cfgs, b) ==
  LET m == {k \in 1..Len(cfgs) : Get(cfgs[k], "boardId") = b}
  IN IF m = {} THEN None
     ELSE Some(cfgs[CHOOSE k \in m : \A j \in m : k <= j])

\* the rows order_by(analyzed_at.desc()).first() may return for a ticket
LastHistoryCandidates(hist, tid) ==
  LET m == {h \in hist : h.ticket_id = tid}
  IN {h \in m : \A g \in m : g.analyzed_at <= h.analyzed_at}

\* AnalyseBoard.query.get(id).analyse_id, None when the row is missing
ScopeAnalyseId(bds, scope) ==
  LET m == {b \in bds : b.id = scope}
  IN IF m = {} THEN None ELSE Some((CHOOSE b \in m : TRUE).analyse_id)

\* the rows a session sees: committed rows overlaid with its flushed rows
ViewTickets(r) ==
  {t \in tickets : \A p \in r.sT : p.id_ticket # t.id_ticket} \cup r.sT

ViewHistory(r) == history \cup r.sH

\* writing a loaded or new ticket row into the session
PutTicket(sT, t) == {p \in sT : p.id_ticket # t.id_ticket} \cup {t}

\* the metadata ensure_ticket gives a new ticket (card fields kept: list_id)
NewMeta(l) ==
  [list_id |-> l, last_moved_at |-> None, last_analysis_config |-> None,
   analysis_result |-> None]

\* the last_analysis_config snapshot analyze_list stores on the ticket
ConfigSnapshot(cfg, at) ==
  [analyzed_at |-> Some(at), boardId |-> Some(Get(cfg, "boardId")),
   listId |-> Some(Get(cfg, "listId")),
   targetListId |-> Some(Get(cfg, "targetListId")), token |-> None]

\* a cache check that compares only the three Config keys of the snapshot
_is_cache_valid_on_snapshot_keys(ticket, cfgs, b) ==
  LET current == get_config_by_board(cfgs, b)
  IN IF current = None THEN FALSE
     ELSE IF ticket.meta.last_analysis_config = None THEN FALSE
     ELSE \A k \in {"boardId", "listId", "targetListId"} :
            Get(current[1], k) = Get(ticket.meta.last_analysis_config[1], k)

\* AnalysisOrchestrator._is_cache_valid_for_config
_is_cache_valid_for_config(ticket, cfgs, b) ==
  LET current == get_config_by_board(cfgs, b)
  IN IF current = None THEN FALSE
     ELSE IF ticket.meta.last_analysis_config = None THEN FALSE
     ELSE SortedJson(current[1]) = SortedJson(ticket.meta.last_analysis_config[1])

\* ----------------------------------------------------------------- results
Levels == {"HIGH", "MEDIUM", "LOW", "OUT_OF_CONTEXT"}

\* what CriticalityAnalyzer can answer for one card: a level with a (possibly
\* empty) justification, or the except branch (success False, LOW)
AnalyzerOutcomes ==
  {[success |-> TRUE, level |-> "HIGH", just |-> TRUE],
   [success |-> TRUE, level |-> "OUT_OF_CONTEXT", just |-> TRUE],
   [success |-> FALSE, level |-> "LOW", just |-> FALSE]}

Result(card, o) ==
  [card_id |-> card, success |-> o.success, level |-> o.level, just |-> o.just,
   from_cache |-> FALSE, label_added |-> FALSE, comment_added |-> FALSE,
   card_moved |-> FALSE, target_list_id |-> None]

CachedResult(card, h) ==
  [card_id |-> card, success |-> TRUE,
   level |-> IF h.criticality_level = "" THEN Null ELSE Upper(h.criticality_level),
   just |-> h.just, from_cache |-> TRUE, label_added |-> FALSE,
   comment_added |-> FALSE, card_moved |-> FALSE, target_list_id |-> None]

\* ----------------------------------------------------------------- the run
IdleRun ==
  [pc |-> "idle", ret |-> "none", list_id |-> "L1", scope |-> 0,
   batch_size |-> 1, cards |-> <<>>, card_index |-> 0, to_analyze |-> <<>>,
   batched |-> {}, i |-> 0, cid_index |-> 0, results |-> <<>>,
   saved |-> <<>>, sT |-> {}, sH |-> {}, failing |-> FALSE, log |-> <<>>,
   exc |-> "none"]


\* ---------------------------------------------------------- db session ops
\* TicketAnalysisHistory.criticality_level: Enum('low', 'medium', 'high'),
\* a native ENUM column of the MySQL database the application is configured for
criticality_level_enum == {"low", "medium", "high"}

\* the column compares without regard to case: a written string that equals a
\* member that way is accepted
EnumAccepts(v) == Lower(v) \in criticality_level_enum

\* what the column then holds: the member as declared; for a string the
\* column does not accept, the empty string (server without strict sql_mode)
EnumStored(v) == IF EnumAccepts(v) THEN Lower(v) ELSE ""

\* a strict sql_mode rejects the INSERT of a string the column does not
\* accept, any other mode stores the empty string: the server's setting
SqlModes == IF sqlMode = "unknown" THEN {"strict", "lax"} ELSE {sqlMode}

\* db.session.commit() of the run's session: flushed rows become visible
Commit(r) ==
  /\ tickets' = ViewTickets(r)
  /\ history' = ViewHistory(r)

\* after commit the session holds no pending rows
Committed(r) == [r EXCEPT !.sT = {}, !.sH = {}]

\* Tickets.invalidate_analysis_cache body on a loaded row: drop analysis_result
InvalidatedRow(t) == [t EXCEPT !.meta.analysis_result = None]

\* Analyse row created by the agent: reference ANALYSE-<day>-<count+1>
AgentReference == <<"ANALYSE", Cardinality(analyses) + 1>>

\* ------------------------------------------------------------- environment
\* time passes
Tick ==
  /\ run.pc = "idle"
  /\ now < MaxClock
  /\ now' = now + 1
  /\ UNCHANGED <<dbVars, cardList, run, ops, auxVars, labelVars, uploadVars, sideVars>>

\* ConfigService.create(raw_data)
ConfigCreate ==
  /\ run.pc = "idle"
  /\ ops.config < MaxConfigOps
  /\ Len(configs) < 1
  /\ \E d \in {RouteConfig("L1")}
            \cup {RawConfig("L1", Null, at) : at \in 0..MaxClock} :
       configs' = Append(configs, d)
  /\ ops' = [ops EXCEPT !.config = @ + 1]
  /\ okSince' = {} /\ okBefore' = {}
  /\ UNCHANGED <<now, analyses, boards, tickets, history, nextId, cardList,
                 run, ormVars, labelVars, uploadVars, sideVars>>

\* the Config rows one board can have
MaxConfigs == 2

\* the lists a Config can name as its target, and null for none
TargetLists == {Null, "L2", "L3"}

\* ConfigService.create(raw_data) for a list of the board that has no Config
\* yet: a board can have one Config per list
ConfigCreateForList ==
  /\ run.pc = "idle"
  /\ ops.config < MaxConfigOps
  /\ Len(configs) < MaxConfigs
  /\ \E l \in Lists, t \in TargetLists :
       /\ \A k \in 1..Len(configs) : Get(configs[k], "listId") # l
       /\ configs' = Append(configs, RawConfig(l, t, 0))
  /\ ops' = [ops EXCEPT !.config = @ + 1]
  /\ okBefore' = okBefore \cup okSince /\ okSince' = {}
  /\ UNCHANGED <<now, analyses, boards, tickets, history, nextId, cardList,
                 run, ormVars, labelVars, uploadVars, sideVars>>

\* ConfigService.set_target_list(config_id, target_list_id, target_list_name)
SetTargetList ==
  /\ run.pc = "idle"
  /\ ops.config < MaxConfigOps
  /\ \E k \in 1..Len(configs), t \in {"L2"} :
       configs' = [configs EXCEPT ![k].targetListId = Some(t)]
  /\ ops' = [ops EXCEPT !.config = @ + 1]
  \* a change of the Config: what was analyzed under the old one
  /\ IF configs' # configs
     THEN okBefore' = okBefore \cup okSince /\ okSince' = {}
     ELSE UNCHANGED ghostVars
  /\ UNCHANGED <<now, analyses, boards, tickets, history, nextId, cardList,
                 run, ormVars, labelVars, uploadVars, sideVars>>

\* ------------------------------------------------------------ analyze_list
\* ANALYSIS_BATCH_SIZE of the environment
DefaultBatchSize == 8
BatchSizes == {DefaultBatchSize}

\* the caller (agent) creates Analyse + AnalyseBoard and calls analyze_list,
\* or calls it without analyse_board_id
StartRun ==
  /\ run.pc = "idle"
  /\ ops.runs < MaxRuns
  /\ \E l \in Lists, withScope \in BOOLEAN, bs \in BatchSizes :
       /\ IF withScope
          THEN /\ analyses' = analyses \cup
                    {[analyse_id |-> nextId.analyse, reference |-> AgentReference,
                      reanalyse |-> FALSE]}
               /\ boards' = boards \cup
                    {[id |-> nextId.board, analyse_id |-> nextId.analyse]}
               /\ nextId' = [nextId EXCEPT !.analyse = @ + 1, !.board = @ + 1]
          ELSE UNCHANGED <<analyses, boards, nextId>>
       /\ run' = [IdleRun EXCEPT !.pc = "fetch", !.list_id = l,
                    !.scope = IF withScope THEN nextId.board ELSE 0,
                    !.batch_size = bs]
  /\ ops' = [ops EXCEPT !.runs = @ + 1]
  /\ UNCHANGED <<now, configs, tickets, history, cardList, auxVars, labelVars,
                 uploadVars, sideVars>>

\* get_list_cards succeeded: the cards of the list; empty list returns at once
FetchOk ==
  /\ run.pc = "fetch"
  /\ LET cs == SeqFilter(CardOrder, {c \in Cards : cardList[c] = run.list_id})
     IN run' = IF cs = <<>>
               THEN [run EXCEPT !.pc = "done", !.ret = "summary"]
               ELSE [run EXCEPT !.pc = "classify", !.cards = cs]
  /\ UNCHANGED <<now, dbVars, cardList, ops, auxVars, labelVars, uploadVars, sideVars>>

\* a fetch failure that is not caught
FetchFailRaising ==
  /\ run.pc = "fetch"
  /\ run' = [run EXCEPT !.pc = "done", !.ret = "raised",
                          !.exc = "get_list_cards"]
  /\ UNCHANGED <<now, dbVars, cardList, ops, auxVars, labelVars, uploadVars, sideVars>>

\* get_list_cards raised TrelloApiError: analyze_list returns {error}
FetchFail ==
  /\ run.pc = "fetch"
  /\ run' = [run EXCEPT !.pc = "done", !.ret = "error"]
  /\ UNCHANGED <<now, dbVars, cardList, ops, auxVars, labelVars, uploadVars, sideVars>>

\* one iteration of the classify loop (lines 54-91)
Classify ==
  /\ run.pc = "classify"
  /\ LET card == run.cards[run.card_index + 1]
         existing == get_by_ticket_id(ViewTickets(run), card)
         valid == existing # None
                  /\ _is_cache_valid_for_config(existing[1], configs, BoardId)
         cands == IF existing = None THEN {}
                  ELSE LastHistoryCandidates(ViewHistory(run), existing[1].id_ticket)
         next(r) == IF r.card_index = Len(r.cards)
                    THEN [r EXCEPT !.pc = "batch"] ELSE r
         queued(r) == [r EXCEPT !.to_analyze = Append(@, card),
                                !.card_index = @ + 1]
     IN IF valid /\ cands # {}
        THEN \* cache hit: synthesized result from the latest history row
             /\ \E h \in cands :
                  run' = next([run EXCEPT
                     !.results = Append(@, CachedResult(card, h)),
                     !.saved = IF run.scope # 0
                               THEN Append(@, [ticket_id |-> card, from_cache |-> TRUE])
                               ELSE @,
                     !.card_index = @ + 1])
             /\ UNCHANGED <<tickets, history>>
        ELSE IF existing # None /\ ~valid
        THEN \* config changed: Tickets.invalidate_analysis_cache, which commits
             /\ LET r1 == [run EXCEPT !.sT = PutTicket(@, InvalidatedRow(existing[1]))]
                IN /\ Commit(r1)
                   /\ run' = next(queued(Committed(r1)))
        ELSE /\ run' = next(queued(run))
             /\ UNCHANGED <<tickets, history>>
  /\ UNCHANGED <<now, configs, analyses, boards, nextId, cardList, ops, auxVars,
                 labelVars, uploadVars, sideVars>>

\* where the run goes after the classify loop or a batch
AfterQueue(r) ==
  IF r.i < Len(r.to_analyze) THEN [r EXCEPT !.pc = "batch"]
  ELSE IF r.cid_index < Len(r.to_analyze) THEN [r EXCEPT !.pc = "act"]
  ELSE [r EXCEPT !.pc = "commit"]

\* one iteration of the batch loop (lines 99-113): analyze_cards_batch answers
\* one result per card of the batch
Batch ==
  /\ run.pc = "batch"
  /\ run.i < Len(run.to_analyze)
  /\ LET hi == Min(run.i + run.batch_size, Len(run.to_analyze))
         batch == {run.to_analyze[k] : k \in (run.i + 1)..hi}
     IN \E f \in [batch -> AnalyzerOutcomes] :
          run' = AfterQueue([run EXCEPT
                   !.batched = {b \in @ : b.card_id \notin batch}
                               \cup {Result(c, f[c]) : c \in batch},
                   !.i = @ + run.batch_size])
  /\ UNCHANGED <<now, dbVars, cardList, ops, auxVars, labelVars, uploadVars, sideVars>>

\* the result under work: analysis_results holds the dict the actions mutate
Cur(r) == r.results[Len(r.results)]
SetCur(r, res) == [r EXCEPT !.results[Len(r.results)] = res]
CurCard(r) == r.to_analyze[r.cid_index + 1]

\* a test for board actions that does not look at success
ActionableIgnoringSuccess(res) == res.level # "OUT_OF_CONTEXT"

\* line 128: the card gets board actions
Actionable(res) == res.success /\ res.level # "OUT_OF_CONTEXT"

\* an exception leaves analyze_list: the request's session is rolled back
Raise(r, call) ==
  [r EXCEPT !.pc = "done", !.ret = "raised", !.exc = call, !.sT = {}, !.sH = {}]

\* a loop body that posts the comment of an actionable card without the label
ActCommentFirst ==
  /\ run.pc = "act"
  /\ LET cid == run.to_analyze[run.cid_index + 1]
         got == {b \in run.batched : b.card_id = cid}
     IN \E res \in (IF got # {} THEN got
                   ELSE {Result(cid, o) : o \in AnalyzerOutcomes}) :
          run' = [run EXCEPT !.results = Append(@, res),
                    !.pc = IF res.success /\ res.level # "OUT_OF_CONTEXT"
                           THEN "comment" ELSE "persist"]
  /\ UNCHANGED <<now, dbVars, cardList, ops, auxVars, labelVars, uploadVars,
                 sideVars>>

\* lines 119-128: take the card's result (single analysis when the batch has
\* none for it) and append it to analysis_results
Act ==
  /\ run.pc = "act"
  /\ LET cid == CurCard(run)
         got == {b \in run.batched : b.card_id = cid}
     IN \E res \in (IF got # {} THEN got
                   ELSE {Result(cid, o) : o \in AnalyzerOutcomes}) :
          run' = [run EXCEPT !.results = Append(@, res),
                    !.pc = IF Actionable(res) THEN "label" ELSE "persist"]
  /\ UNCHANGED <<now, dbVars, cardList, ops, auxVars, labelVars, uploadVars, sideVars>>

\* line 131-132: add_label returned
Label ==
  /\ run.pc = "label"
  /\ run' = [SetCur(run, [Cur(run) EXCEPT !.label_added = TRUE]) EXCEPT
               !.log = Append(@, <<"label", CurCard(run)>>),
               !.pc = IF Cur(run).just THEN "comment" ELSE "move"]
  /\ UNCHANGED <<now, dbVars, cardList, ops, auxVars, labelVars, uploadVars, sideVars>>

\* add_label raised (requests error): nothing catches it in analyze_list
LabelFail ==
  /\ run.pc = "label"
  /\ run' = Raise(run, "add_label")
  /\ UNCHANGED <<now, dbVars, cardList, ops, auxVars, labelVars, uploadVars, sideVars>>

\* lines 136-138: add_comment returned
Comment ==
  /\ run.pc = "comment"
  /\ run' = [SetCur(run, [Cur(run) EXCEPT !.comment_added = TRUE]) EXCEPT
               !.log = Append(@, <<"comment", CurCard(run)>>),
               !.pc = "move"]
  /\ UNCHANGED <<now, dbVars, cardList, ops, auxVars, labelVars, uploadVars, sideVars>>

\* add_comment raised
CommentFail ==
  /\ run.pc = "comment"
  /\ run' = Raise(run, "add_comment")
  /\ UNCHANGED <<now, dbVars, cardList, ops, auxVars, labelVars, uploadVars, sideVars>>

\* lines 143-156: Config.get_config_by_board_and_list does not exist, the
\* AttributeError is caught and the board-level config is used
MoveConfig == get_config_by_board(configs, BoardId)

MoveTarget ==
  IF MoveConfig # None /\ Get(MoveConfig[1], "targetListId") # Null
  THEN Some(Get(MoveConfig[1], "targetListId")) ELSE None

\* lines 157-164: move_card returned, or no target list is configured
Move ==
  /\ run.pc = "move"
  \* with a row pending that the database rejects, the autoflush of the Config
  \* query raises, both except branches are taken and config is None
  /\ IF MoveTarget # None /\ ~run.failing
     THEN /\ cardList' = [cardList EXCEPT ![CurCard(run)] = MoveTarget[1]]
          /\ run' = [SetCur(run, [Cur(run) EXCEPT !.card_moved = TRUE,
                                    !.target_list_id = MoveTarget]) EXCEPT
                       !.log = Append(@, <<"move", CurCard(run)>>),
                       !.pc = "persist"]
     ELSE /\ run' = [run EXCEPT !.pc = "persist"]
          /\ UNCHANGED cardList
  /\ UNCHANGED <<now, dbVars, ops, auxVars, labelVars, uploadVars, sideVars>>

\* move_card raised
MoveFail ==
  /\ run.pc = "move"
  /\ MoveTarget # None /\ ~run.failing
  /\ run' = Raise(run, "move_card")
  /\ UNCHANGED <<now, dbVars, cardList, ops, auxVars, labelVars, uploadVars, sideVars>>

\* ensure_ticket without the lookup of the existing row
ensure_ticket_without_lookup(view, scope, card, l, newId) ==
  [id_ticket |-> newId, ticket_id |-> card, analyse_board_id |-> scope,
   meta |-> NewMeta(l)]

\* an ensure_ticket that binds the existing row to the scope and the list of
\* the call
ensure_ticket_rebinding(view, scope, card, l, newId) ==
  LET existing == get_by_ticket_id(view, card)
  IN IF existing # None
     THEN [existing[1] EXCEPT !.analyse_board_id = scope, !.meta.list_id = l]
     ELSE [id_ticket |-> newId, ticket_id |-> card, analyse_board_id |-> scope,
           meta |-> NewMeta(l)]

\* TicketService.ensure_ticket: the existing row, or a new flushed row
ensure_ticket(view, scope, card, l, newId) ==
  LET existing == get_by_ticket_id(view, card)
  IN IF existing # None THEN existing[1]
     ELSE [id_ticket |-> newId, ticket_id |-> card, analyse_board_id |-> scope,
           meta |-> NewMeta(l)]

\* TicketService.save_history: the row added to the session
save_history(ticket, analyse_id, res, id, at) ==
  [id |-> id, ticket_id |-> ticket.id_ticket, analyse_id |-> analyse_id,
   criticality_level |-> Lower(res.level), just |-> res.just,
   analyzed_at |-> at]

\* TicketService.update_ticket_list: the metadata after a move
update_ticket_list(ticket, l, at) ==
  [ticket EXCEPT !.meta.list_id = l, !.meta.last_moved_at = Some(at)]

\* the rows for a card that a session has flushed and not committed
UncommittedFor(r, card) ==
  {p \in r.sT : p.ticket_id = card
                 /\ \A t \in tickets : t.id_ticket # p.id_ticket}

\* db.JSON columns have no mutation tracking declared: whether flush writes
\* a change made inside the dict of a flushed row (or the same dict assigned
\* back) is decided by the ORM, once for the whole execution
JsonModes ==
  IF jsonTracking = "unknown" THEN {"tracked", "untracked"} ELSE {jsonTracking}

\* lines 166-206: persistence of the card under work, then the loop advances
Persist ==
  /\ run.pc = "persist"
  /\ LET res == Cur(run)
         cid == CurCard(run)
         adv(r) == AfterQueue([r EXCEPT !.cid_index = @ + 1])
     IN IF run.scope # 0 /\ res.success /\ run.failing
        THEN \* the autoflush of ensure_ticket's query raises
             /\ run' = Raise(run, "flush")
             /\ UNCHANGED <<tickets, history, nextId, ormVars>>
        ELSE IF run.scope # 0 /\ res.success
        THEN LET l == IF res.card_moved THEN res.target_list_id[1] ELSE run.list_id
                 t1 == ensure_ticket(ViewTickets(run), run.scope, cid, l, nextId.ticket)
                 isNew == t1 \notin ViewTickets(run)
                 \* unique(ticket_id): the INSERT waits while the session of
                 \* the other call holds a flushed row for the card
                 waits == isNew /\ UncommittedFor(other, cid) # {}
                 cfg == get_config_by_board(configs, BoardId)
                 \* ticket.ticket_metadata['last_analysis_config'] = {...}
                 t2 == IF cfg # None
                       THEN [t1 EXCEPT !.meta.last_analysis_config =
                                          Some(ConfigSnapshot(cfg[1], now))]
                       ELSE t1
                 aid == ScopeAnalyseId(boards, run.scope)
                 moved == res.card_moved /\ res.target_list_id # None
                 t3 == IF aid # None /\ moved
                       THEN update_ticket_list(t2, res.target_list_id[1], now)
                       ELSE t2
                 inPlace == t3 # t1
                 hist == IF aid # None
                         THEN Some(save_history(t1, aid[1], res, nextId.history, now))
                         ELSE None
                 accepted == hist = None \/ EnumAccepts(hist[1].criticality_level)
             IN IF waits
                THEN /\ run' = [run EXCEPT !.pc = "insert"]
                     /\ UNCHANGED <<tickets, history, nextId, ormVars>>
                ELSE
                \E mode \in JsonModes,
                   sm \in (IF accepted THEN {sqlMode} ELSE SqlModes) :
                  LET rejected == ~accepted /\ sm = "strict"
                      row == IF mode = "tracked" THEN t3 ELSE t1
                      r1 == [run EXCEPT
                          !.sT = IF isNew \/ row # t1 THEN PutTicket(@, row) ELSE @,
                          !.sH = IF hist # None /\ ~rejected
                                 THEN @ \cup {[hist[1] EXCEPT !.criticality_level =
                                                              EnumStored(@)]}
                                 ELSE @,
                          !.failing = rejected,
                          !.saved = IF aid # None
                                    THEN Append(@, [ticket_id |-> cid,
                                                    from_cache |-> FALSE])
                                    ELSE @]
                  IN /\ jsonTracking' = IF inPlace THEN mode ELSE jsonTracking
                     /\ ~inPlace => mode = "tracked" \/ jsonTracking = mode
                     /\ sqlMode' = sm
                     /\ nextId' = [nextId EXCEPT
                            !.ticket = IF isNew THEN @ + 1 ELSE @,
                            !.history = IF hist # None /\ ~rejected THEN @ + 1 ELSE @]
                     \* update_ticket_list commits the session
                     /\ IF aid # None /\ moved
                        THEN Commit(r1) /\ run' = adv(Committed(r1))
                        ELSE run' = adv(r1) /\ UNCHANGED <<tickets, history>>
        ELSE /\ run' = adv(run)
             /\ UNCHANGED <<tickets, history, nextId, ormVars>>
  /\ UNCHANGED <<now, configs, analyses, boards, cardList, ops, ghostVars,
                 labelVars, uploadVars, sideVars>>

\* ticket_service.py:37: the flush of ensure_ticket's INSERT ends its wait when
\* the other session has committed or rolled back: a committed row with the
\* ticket_id makes it fail on unique(ticket_id) and the IntegrityError leaves
\* analyze_list; otherwise the persistence of the card goes on
InsertResolved ==
  /\ run.pc = "insert"
  /\ UncommittedFor(other, CurCard(run)) = {}
  /\ run' = IF get_by_ticket_id(tickets, CurCard(run)) # None
            THEN Raise(run, "flush")
            ELSE [run EXCEPT !.pc = "persist"]
  /\ UNCHANGED <<now, dbVars, cardList, ops, auxVars, labelVars, uploadVars,
                 sideVars>>

\* the other worker runs: the two calls in progress change places
Switch ==
  /\ run.pc # "idle" \/ other.pc # "idle"
  /\ run' = other
  /\ other' = run
  /\ UNCHANGED <<now, dbVars, cardList, ops, auxVars, labelVars, uploadVars,
                 parseVars, stats, az, sessionError>>

\* lines 208-264: final commit when something was saved, then the summary
CommitRun ==
  /\ run.pc = "commit"
  /\ ~run.failing
  /\ IF run.saved # <<>>
     THEN Commit(run)
     ELSE UNCHANGED <<tickets, history>>
  /\ run' = [(IF run.saved # <<>> THEN Committed(run) ELSE run) EXCEPT
               !.pc = "done", !.ret = "summary"]
  /\ UNCHANGED <<now, configs, analyses, boards, nextId, cardList, ops, auxVars,
                 labelVars, uploadVars, sideVars>>

\* line 209: db.session.commit() raised (the connection, or the flush of a row
\* the database rejects); the exception leaves analyze_list
CommitFail ==
  /\ run.pc = "commit"
  /\ run.saved # <<>>
  /\ run' = Raise(run, "commit")
  /\ UNCHANGED <<now, dbVars, cardList, ops, auxVars, labelVars, uploadVars, sideVars>>

\* the cards the run analyzed itself (not from cache) with success = True
Successful(r) ==
  {x.card_id : x \in {y \in Range(r.results) : y.success /\ ~y.from_cache}}

\* the call is over: the request ends and its session is removed
Finish ==
  /\ run.pc = "done"
  /\ okSince' = IF run.ret = "summary" /\ run.scope # 0
                THEN okSince \cup {<<c, run.list_id>> : c \in Successful(run)}
                ELSE okSince
  /\ okBefore' = {p \in okBefore : p[1] \notin Range(run.cards)}
  /\ run' = IdleRun
  /\ UNCHANGED <<now, dbVars, cardList, ops, ormVars, labelVars, uploadVars, sideVars>>

\* ---------------------------------------------------------------- reanalyze
\* what reanalyze_card_criticality can answer: a level, or the except branch
ReanalyzerOutcomes ==
  {[success |-> TRUE, level |-> "HIGH", just |-> TRUE],
   [success |-> FALSE, level |-> "LOW", just |-> TRUE]}

\* reference of the session reanalyze creates: REANALYSE-<date>_<HHMMSS>
ReanalyseReference == <<"REANALYSE", now>>

\* a session row of reanalyze that lacks the reanalyse flag
ReanalyseSessionUnflagged(id) ==
  [analyse_id |-> id, reference |-> ReanalyseReference, reanalyse |-> FALSE]

\* line 38: the Analyse row reanalyze adds
ReanalyseSession(id) ==
  [analyse_id |-> id, reference |-> ReanalyseReference, reanalyse |-> TRUE]

\* ReanalysisService.reanalyze(ticket_id) on an existing ticket, committed
\* rows written only for a result with success = true
reanalyze_rows_on_success(ticket, o, ids, at) ==
  IF o.success
  THEN [sessions |-> {ReanalyseSession(ids.analyse)},
        boards |-> {[id |-> ids.board, analyse_id |-> ids.analyse]},
        history |-> {[id |-> ids.history, ticket_id |-> ticket.id_ticket,
                      analyse_id |-> ids.analyse,
                      criticality_level |-> EnumStored(o.level),
                      just |-> o.just, analyzed_at |-> at]}]
  ELSE [sessions |-> {}, boards |-> {}, history |-> {}]

\* lines 37-45: the Analyse, AnalyseBoard and History rows reanalyze adds for
\* the result o of the Analyzer
reanalyze_rows(ticket, o, ids, at) ==
  [sessions |-> {ReanalyseSession(ids.analyse)},
   boards |-> {[id |-> ids.board, analyse_id |-> ids.analyse]},
   history |-> {[id |-> ids.history, ticket_id |-> ticket.id_ticket,
                 analyse_id |-> ids.analyse,
                 criticality_level |-> EnumStored(o.level),
                 just |-> o.just, analyzed_at |-> at]}]

ReanalyzeUpTo(calls) ==
  /\ run.pc = "idle"
  /\ ops.reanalyses < calls
  /\ \E ext \in Cards, o \in ReanalyzerOutcomes, mode \in JsonModes :
       LET found == get_by_ticket_id(tickets, ext)
       IN /\ found # None
          /\ \A a \in analyses : a.reference # ReanalyseReference
          /\ LET rows == reanalyze_rows(found[1], o, nextId, now)
             IN /\ analyses' = analyses \cup rows.sessions
                /\ boards' = boards \cup rows.boards
                /\ history' = history \cup rows.history
          \* ticket.ticket_metadata['analysis_result'] = result
          /\ tickets' = IF mode = "tracked"
                        THEN PutTicket(tickets,
                               [found[1] EXCEPT !.meta.analysis_result = Some(o.level)])
                        ELSE tickets
          /\ jsonTracking' = mode
          /\ UNCHANGED sqlMode
          /\ nextId' = [nextId EXCEPT !.analyse = @ + 1, !.board = @ + 1,
                                      !.history = @ + 1]
  /\ ops' = [ops EXCEPT !.reanalyses = @ + 1]
  /\ UNCHANGED <<now, configs, cardList, run, ghostVars, labelVars, uploadVars, sideVars>>

Reanalyze == ReanalyzeUpTo(MaxReanalyses)

\* reanalyze of an unknown ticket: returns {error}
ReanalyzeNotFound ==
  /\ run.pc = "idle"
  /\ \E ext \in Cards : get_by_ticket_id(tickets, ext) = None
  /\ UNCHANGED vars

\* reanalyze when a session with the same reference exists: the flush of the
\* Analyse row violates unique(reference) and the exception leaves reanalyze
ReanalyzeClash ==
  /\ run.pc = "idle"
  /\ \E ext \in Cards : get_by_ticket_id(tickets, ext) # None
  /\ \E a \in analyses : a.reference = ReanalyseReference
  /\ UNCHANGED vars

\* ------------------------------------------------- creation of sessions
\* seconds of a minute: strftime('%Y%m%d_%H%M') drops the seconds
SecondsPerMinute == 60

\* the clock of the session specification, in seconds, and the seconds
\* followed within a minute
MaxSessionClock == 61
MaxSecond == 1

\* Analyse rows and reanalyze calls of the session specification
MaxSessions == 4
MaxSessionReanalyses == 2

\* Analyse.__init__ without reference: analyse_<date>_<HHMM>
DefaultReference == <<"analyse", now \div SecondsPerMinute>>

\* time passes, by a second or by a minute
Elapse ==
  /\ \E d \in {1, SecondsPerMinute} :
       /\ now + d <= MaxSessionClock
       /\ (now + d) % SecondsPerMinute <= MaxSecond
       /\ now' = now + d
  /\ UNCHANGED <<dbVars, cardList, run, ops, auxVars, labelVars, uploadVars, sideVars>>

\* AnalyseSessionService.create_session(reanalyse): the row gets the default
\* reference; flush raises IntegrityError when a session has that reference
create_session ==
  /\ Cardinality(analyses) < MaxSessions
  /\ \E reanalyse \in BOOLEAN :
       IF \E a \in analyses : a.reference = DefaultReference
       THEN /\ sessionError' = "create_session"
            /\ UNCHANGED <<analyses, nextId>>
       ELSE /\ analyses' = analyses \cup
                 {[analyse_id |-> nextId.analyse, reference |-> DefaultReference,
                   reanalyse |-> reanalyse]}
            /\ nextId' = [nextId EXCEPT !.analyse = @ + 1]
            /\ UNCHANGED sessionError
  /\ UNCHANGED <<now, configs, boards, tickets, history, cardList, run, ops,
                 auxVars, labelVars, uploadVars, parseVars, stats, other, az>>

\* ReanalysisService.reanalyze called again
ReanalyzeAgain == ReanalyzeUpTo(MaxSessionReanalyses)

\* reanalyze when a session with the same reference exists (ReanalyzeClash),
\* the IntegrityError that leaves the call being recorded
ReanalyzeRefused ==
  /\ run.pc = "idle"
  /\ \E ext \in Cards : get_by_ticket_id(tickets, ext) # None
  /\ \E a \in analyses : a.reference = ReanalyseReference
  /\ sessionError' = "reanalyze"
  /\ UNCHANGED <<now, dbVars, cardList, run, ops, auxVars, labelVars, uploadVars,
                 parseVars, stats, other, az>>

NextSession == Elapse \/ create_session \/ ReanalyzeAgain \/ ReanalyzeRefused

\* ------------------------------------------------------------ CacheService
\* a clear_ticket that deletes the ticket row
ClearTicketDeleting ==
  /\ run.pc = "idle"
  /\ \E ext \in Cards :
       LET found == get_by_ticket_id(tickets, ext)
       IN /\ found # None
          /\ tickets' = tickets \ {found[1]}
  /\ UNCHANGED <<now, configs, analyses, boards, history, nextId, cardList,
                 run, ops, auxVars, labelVars, uploadVars, sideVars>>

\* CacheService.clear_ticket -> Tickets.invalidate_analysis_cache
ClearTicket ==
  /\ run.pc = "idle"
  /\ \E ext \in Cards :
       LET found == get_by_ticket_id(tickets, ext)
       IN /\ found # None
          /\ tickets' = PutTicket(tickets, InvalidatedRow(found[1]))
  /\ UNCHANGED <<now, configs, analyses, boards, history, nextId, cardList,
                 run, ops, auxVars, labelVars, uploadVars, sideVars>>

\* clear_all that also empties the history table
ClearAllWithHistory ==
  /\ run.pc = "idle"
  /\ tickets' = {InvalidatedRow(t) : t \in tickets}
  /\ history' = {}
  /\ UNCHANGED <<now, configs, analyses, boards, nextId, cardList,
                 run, ops, auxVars, labelVars, uploadVars, sideVars>>

\* CacheService.clear_all -> Tickets.clear_all_analysis_cache
ClearAll ==
  /\ run.pc = "idle"
  /\ tickets' = {InvalidatedRow(t) : t \in tickets}
  /\ UNCHANGED <<now, configs, analyses, boards, history, nextId, cardList,
                 run, ops, auxVars, labelVars, uploadVars, sideVars>>

\* ------------------------------------------------------- add_label (Trello)
\* the names apply_criticality_label_with_creation removes from the card
priority_labels == {"Priority - High", "Priority - Medium", "Priority - Low"}

\* names a label of the board can have
LabelNames == priority_labels \cup {"Bug"}

\* criticality levels add_label is called with
LabelLevels == {"HIGH", "MEDIUM", "LOW", "low"}

\* str.capitalize(): first character upper case, the rest lower case
Capitalize(level) ==
  CASE level \in {"HIGH", "high"} -> "High"
    [] level \in {"MEDIUM", "medium"} -> "Medium"
    [] level \in {"LOW", "low"} -> "Low"
    [] OTHER -> level

\* label_name = f"Priority - {criticality_level.capitalize()}"
label_name(level) ==
  CASE Capitalize(level) = "High" -> "Priority - High"
    [] Capitalize(level) = "Medium" -> "Priority - Medium"
    [] Capitalize(level) = "Low" -> "Priority - Low"
    [] OTHER -> "Priority - " \o level

\* a removal step that finds no old priority label
NoOldPriorityLabels(card, board) == {}

\* the labels of the card whose name is in priority_labels
OldPriorityLabels(card, board) ==
  {id \in card : board[id] \in priority_labels}

\* get_or_create_criticality_label on the board: the id of the first label
\* with the name, and the board afterwards (a label is created when absent)
LabelIdsNamed(board, name) == {id \in 1..Len(board) : board[id] = name}
get_or_create_criticality_label(board, level) ==
  IF LabelIdsNamed(board, label_name(level)) # {}
  THEN [id |-> CHOOSE id \in LabelIdsNamed(board, label_name(level)) :
                  \A j \in LabelIdsNamed(board, label_name(level)) : id <= j,
        board |-> board]
  ELSE [id |-> Len(board) + 1, board |-> Append(board, label_name(level))]

\* no add_label call since the board or the card was last edited by a user
NoLabelCall == [level |-> Null, ret |-> "none", before |-> {}]

\* a user of the board creates a label
BoardCreateLabel ==
  /\ Len(boardLabels) < MaxBoardLabels
  /\ \E n \in LabelNames : boardLabels' = Append(boardLabels, n)
  /\ labelCall' = NoLabelCall
  /\ UNCHANGED <<now, dbVars, cardList, run, ops, auxVars, cardLabels, uploadVars, sideVars>>

\* a user of the board puts a label on the card
CardAttachLabel ==
  /\ \E id \in 1..Len(boardLabels) \ cardLabels : cardLabels' = cardLabels \cup {id}
  /\ labelCall' = NoLabelCall
  /\ UNCHANGED <<now, dbVars, cardList, run, ops, auxVars, boardLabels, uploadVars, sideVars>>

\* apply_criticality_label_with_creation, every request answered 2xx
AddLabel ==
  /\ \E level \in LabelLevels :
       LET kept == cardLabels \ OldPriorityLabels(cardLabels, boardLabels)
           got == get_or_create_criticality_label(boardLabels, level)
       IN /\ Len(got.board) <= MaxBoardLabels
          /\ boardLabels' = got.board
          /\ cardLabels' = kept \cup {got.id}
          /\ labelCall' = [level |-> level, ret |-> "ok",
                           before |-> OldPriorityLabels(cardLabels, boardLabels)]
  /\ UNCHANGED <<now, dbVars, cardList, run, ops, auxVars, uploadVars, sideVars>>

\* apply_criticality_label_with_creation when a request fails: the labels
\* deleted and the label created before the failing request stay so
AddLabelFail ==
  /\ \E level \in LabelLevels, k \in 0..Len(boardLabels), created \in BOOLEAN :
       LET old == OldPriorityLabels(cardLabels, boardLabels)
           deleted == {id \in old : id <= k}
           got == get_or_create_criticality_label(boardLabels, level)
       IN /\ created => deleted = old /\ Len(got.board) <= MaxBoardLabels
          /\ cardLabels' = cardLabels \ deleted
          /\ boardLabels' = IF created THEN got.board ELSE boardLabels
          /\ labelCall' = [level |-> level, ret |-> "raised", before |-> old]
  /\ UNCHANGED <<now, dbVars, cardList, run, ops, auxVars, uploadVars, sideVars>>

NextLabel == BoardCreateLabel \/ CardAttachLabel \/ AddLabel \/ AddLabelFail

\* ------------------------------------------------------------ POST /upload
\* names and contents of the files sent to the route
Filenames == {"a.txt", "b.txt"}
Contents == {"x", "y"}

\* text_splitter.split_text(content): the chunks of a content, in order
split_text(content) == IF content = "x" THEN <<"x">> ELSE <<"y1", "y2">>

\* str(uuid.uuid4()): an id no earlier upload was given
FreshDocumentId == Len(uploads) + 1

\* VectorizerService.check_duplicate_file(filename, content): "exists"
check_duplicate_file(store, filename, content) ==
  LET results == {ch \in store : ch.filename = filename}
  IN IF results = {} THEN FALSE
     ELSE IF content # ""
          THEN IF \E ch \in results :
                    split_text(content) =
                      [i \in 1..ch.total_chunks |->
                         (CHOOSE c2 \in results :
                            c2.document_id = ch.document_id /\ c2.chunk_index = i - 1).content]
               THEN TRUE
               ELSE TRUE
          ELSE TRUE

\* VectorizerService.vectorize_and_store(content, filename): the stored chunks
vectorize_and_store(content, filename, document_id) ==
  {[document_id |-> document_id, filename |-> filename, chunk_index |-> i - 1,
    content |-> split_text(content)[i], total_chunks |-> Len(split_text(content))] :
     i \in 1..Len(split_text(content))}

\* upload_document: 409 for a duplicate, else the document is stored
Upload ==
  /\ Len(uploads) < MaxUploads
  /\ \E filename \in Filenames, content \in Contents :
       IF check_duplicate_file(chunks, filename, content)
       THEN /\ uploads' = Append(uploads,
                 [filename |-> filename, content |-> content, status |-> 409,
                  document_id |-> None])
            /\ UNCHANGED chunks
       ELSE /\ chunks' = chunks \cup
                 vectorize_and_store(content, filename, FreshDocumentId)
            /\ uploads' = Append(uploads,
                 [filename |-> filename, content |-> content, status |-> 200,
                  document_id |-> Some(FreshDocumentId)])
  /\ UNCHANGED <<now, dbVars, cardList, run, ops, auxVars, labelVars, sideVars>>

\* upload_document when store_documents fails: 500, nothing is stored
UploadFail ==
  /\ Len(uploads) < MaxUploads
  /\ \E filename \in Filenames, content \in Contents :
       /\ ~check_duplicate_file(chunks, filename, content)
       /\ uploads' = Append(uploads,
            [filename |-> filename, content |-> content, status |-> 500,
             document_id |-> None])
  /\ UNCHANGED <<now, dbVars, cardList, run, ops, auxVars, labelVars, chunks,
                 sideVars>>

NextUpload == Upload \/ UploadFail

\* ------------------------------------------------------------ specification
\* ------------------------------------ analyze_card_criticality (the parsing)
\* texts are sequences of characters; the words a response is made of
MaxWords == 3
Word_high == <<"h", "i", "g", "h">>
Word_HIGH == <<"H", "I", "G", "H">>
Word_Medium == <<"M", "e", "d", "i", "u", "m">>
Word_low == <<"l", "o", "w">>
Word_below == <<"b", "e", "l", "o", "w">>
Word_ok == <<"o", "k">>
Word_OUT_OF_CONTEXT ==
  <<"O", "U", "T", "_", "O", "F", "_", "C", "O", "N", "T", "E", "X", "T">>
Vocabulary ==
  {Word_high, Word_HIGH, Word_Medium, Word_low, Word_below, Word_ok,
   Word_OUT_OF_CONTEXT}

\* the words separated by one space
RECURSIVE JoinWords(_)
JoinWords(ws) ==
  IF ws = <<>> THEN <<>>
  ELSE IF Len(ws) = 1 THEN ws[1]
  ELSE ws[1] \o <<" ">> \o JoinWords(Tail(ws))

\* the texts response.text can be: up to MaxWords words, possibly with white
\* space around them
Responses ==
  LET bodies == {JoinWords(ws) :
                   ws \in UNION {[1..n -> Vocabulary] : n \in 0..MaxWords}}
  IN bodies \cup {<<" ">> \o b \o <<"\n">> : b \in bodies}

\* str.strip(): white space removed at both ends
Whitespace == {" ", "\n"}
RECURSIVE StripLeft(_)
StripLeft(t) ==
  IF t # <<>> /\ t[1] \in Whitespace THEN StripLeft(Tail(t)) ELSE t
RECURSIVE StripRight(_)
StripRight(t) ==
  IF t # <<>> /\ t[Len(t)] \in Whitespace
  THEN StripRight(SubSeq(t, 1, Len(t) - 1)) ELSE t
Strip(t) == StripRight(StripLeft(t))

\* str.upper(), character by character
UpperChar(c) ==
  CASE c = "h" -> "H" [] c = "i" -> "I" [] c = "g" -> "G" [] c = "e" -> "E"
    [] c = "d" -> "D" [] c = "u" -> "U" [] c = "m" -> "M" [] c = "l" -> "L"
    [] c = "o" -> "O" [] c = "w" -> "W" [] c = "b" -> "B" [] c = "k" -> "K"
    [] OTHER -> c
StrUpper(t) == [k \in 1..Len(t) |-> UpperChar(t[k])]

\* the operator "in" of two strings
Contains(t, p) ==
  \E k \in 1..(Len(t) - Len(p) + 1) : SubSeq(t, k, k + Len(p) - 1) = p

\* the three level names as texts
LevelText(level) ==
  CASE level = "HIGH" -> Word_HIGH
    [] level = "MEDIUM" -> StrUpper(Word_Medium)
    [] level = "LOW" -> StrUpper(Word_low)

\* position of the first occurrence of p in t, 0 when there is none
FirstIndex(t, p) ==
  LET at == {k \in 1..(Len(t) - Len(p) + 1) : SubSeq(t, k, k + Len(p) - 1) = p}
  IN IF at = {} THEN 0 ELSE CHOOSE k \in at : \A j \in at : k <= j

\* a parsing that takes the level whose name occurs first in the text
analyze_by_first_occurrence(text) ==
  LET u == StrUpper(Strip(text))
      found == {l \in {"HIGH", "MEDIUM", "LOW"} : Contains(u, LevelText(l))}
  IN IF Contains(u, Word_OUT_OF_CONTEXT) THEN "OUT_OF_CONTEXT"
     ELSE IF found = {} THEN "LOW"
     ELSE CHOOSE l \in found :
            \A m \in found : FirstIndex(u, LevelText(l)) <= FirstIndex(u, LevelText(m))

\* lines 391-416: criticality_level of analyze_card_criticality for a response
analyze_card_criticality(text) ==
  LET response_text == StrUpper(Strip(text))
  IN IF Contains(response_text, Word_OUT_OF_CONTEXT) THEN "OUT_OF_CONTEXT"
     ELSE IF Contains(response_text, LevelText("HIGH")) THEN "HIGH"
     ELSE IF Contains(response_text, LevelText("MEDIUM")) THEN "MEDIUM"
     ELSE IF Contains(response_text, LevelText("LOW")) THEN "LOW"
     ELSE "LOW"

\* line 390: the model answers the prompt
GenerateContent ==
  /\ parsed # "pending"
  /\ response' \in Responses
  /\ parsed' = "pending"
  /\ UNCHANGED <<now, dbVars, cardList, run, ops, auxVars, labelVars, uploadVars,
                 stats, other, az, sessionError>>

\* lines 391-424: the answer is parsed into the result
ParseResponse ==
  /\ parsed = "pending"
  /\ parsed' = analyze_card_criticality(response)
  /\ UNCHANGED <<now, dbVars, cardList, run, ops, auxVars, labelVars, uploadVars,
                 response, stats, other, az, sessionError>>

NextParse == GenerateContent \/ ParseResponse

InitParse == /\ response = <<>> /\ parsed = "none"

\* ------------------------------------ analyze_list: the analysis of the queue
\* values of ANALYSIS_BATCH_SIZE: int() of the environment variable
EnvBatchSizes == {-1, 0, 1, 2, DefaultBatchSize}

\* how far below zero the index of the batch loop is followed; a lower index
\* is folded back to -1: with a negative size the slice from any negative
\* index is empty
MaxDrift == 2

\* list[a:b] of Python: negative indices count from the end, both ends are
\* clipped to the list
PyIndex(n, k) == IF k < 0 THEN (IF n + k < 0 THEN 0 ELSE n + k)
                 ELSE (IF k > n THEN n ELSE k)
PySlice(s, a, b) == SubSeq(s, PyIndex(Len(s), a) + 1, PyIndex(Len(s), b))

\* what the LLM can answer for a card asked alone: a level, OUT_OF_CONTEXT, or
\* the call raises
SingleAnswers == {"level", "ooc", "fail"}

\* what the JSON array of a batch answer can hold for a card: an element with
\* a level, no element, or an element whose criticality_level is no string
BatchEntries == {"ok", "missing", "bad"}

\* the analysis phase before it starts
IdleAnalysis ==
  [pc |-> "idle", batch_size |-> DefaultBatchSize, to_analyze |-> <<>>, i |-> 0,
   batched |-> {}, cid_index |-> 0, results |-> <<>>, groups |-> <<>>,
   singles |-> [c \in Cards |-> 0], missing |-> {}, store0 |-> {}]

\* _get_application_context() differs from the default context: the
\* collection holds documents
HasContext(store) == store # {}

\* _save_analysis_to_history: the chunk store_documents adds to the collection
\* (metadata without document_id or filename)
AnalysisChunk(store, c) ==
  [document_id |-> 0, filename |-> "unknown",
   chunk_index |-> Cardinality({ch \in store : ch.document_id = 0}),
   content |-> c, total_chunks |-> 0]

\* CriticalityAnalyzer.analyze_card_criticality(card): the result appended,
\* the call counted, and the analysis saved in the collection when the LLM
\* gave a level
single_analysis(c, answer, acc) ==
  LET res == IF ~HasContext(acc.store)
             THEN [card_id |-> c, level |-> "LOW", success |-> TRUE]
             ELSE CASE answer = "fail" ->
                         [card_id |-> c, level |-> "LOW", success |-> FALSE]
                    [] answer = "ooc" ->
                         [card_id |-> c, level |-> "OUT_OF_CONTEXT", success |-> TRUE]
                    [] OTHER ->
                         [card_id |-> c, level |-> "HIGH", success |-> TRUE]
  IN [acc EXCEPT !.results = Append(@, res), !.singles[c] = @ + 1,
                 !.store = IF HasContext(acc.store) /\ answer = "level"
                           THEN @ \cup {AnalysisChunk(@, c)} ELSE @]

\* lines 547-553: the except branch analyzes every card of the batch alone
RECURSIVE FallbackAll(_, _, _, _)
FallbackAll(cards, k, single, acc) ==
  IF k > Len(cards) THEN acc
  ELSE FallbackAll(cards, k + 1, single,
                   single_analysis(cards[k], single[cards[k]], acc))

\* lines 515-546: the loop over the cards of the batch against the parsed
\* answer; an element that cannot be read raises into the except branch
RECURSIVE BatchLoop(_, _, _, _, _)
BatchLoop(cards, k, entries, single, acc) ==
  IF k > Len(cards) THEN acc
  ELSE LET c == cards[k]
       IN CASE entries[c] = "missing" ->
                 BatchLoop(cards, k + 1, entries, single,
                           single_analysis(c, single[c], acc))
            [] entries[c] = "ok" ->
                 BatchLoop(cards, k + 1, entries, single,
                           [acc EXCEPT !.results = Append(@,
                              [card_id |-> c, level |-> "HIGH", success |-> TRUE])])
            [] OTHER -> FallbackAll(cards, 1, single, acc)

\* CriticalityAnalyzer.analyze_cards_batch(cards): json is FALSE when the
\* answer holds no JSON array
analyze_cards_batch(cards, json, entries, single, acc) ==
  IF cards = <<>> THEN acc
  ELSE IF ~HasContext(acc.store)
  THEN [acc EXCEPT !.results =
          [k \in 1..Len(cards) |->
             [card_id |-> cards[k], level |-> "LOW", success |-> TRUE]]]
  ELSE IF ~json THEN FallbackAll(cards, 1, single, acc)
  ELSE BatchLoop(cards, 1, entries, single, acc)

\* batched_results[r['card_id']] = r over the results in order
RECURSIVE Keyed(_, _)
Keyed(batched, rs) ==
  IF rs = <<>> THEN batched
  ELSE Keyed({b \in batched : b.card_id # rs[1].card_id} \cup {rs[1]}, Tail(rs))

\* lines 53-99: the fetched cards, none of them tracked, are queued
QueueCards ==
  /\ az.pc = "idle"
  /\ \E n \in 1..Len(CardOrder), bs \in EnvBatchSizes :
       az' = [IdleAnalysis EXCEPT !.pc = "batch", !.batch_size = bs,
                !.to_analyze = SubSeq(CardOrder, 1, n), !.store0 = chunks]
  /\ UNCHANGED <<now, dbVars, cardList, run, ops, auxVars, labelVars, uploadVars,
                 parseVars, stats, other, sessionError>>

\* lines 100-113: one iteration of the batch loop, or its end; the batch
\* number i//BATCH_SIZE + 1 of the log message at line 102 raises
\* ZeroDivisionError for a size of 0, before the Analyzer is called
BatchStep ==
  /\ az.pc = "batch"
  /\ IF az.i < Len(az.to_analyze) /\ az.batch_size = 0
     THEN /\ az' = [az EXCEPT !.pc = "raised"]
          /\ UNCHANGED chunks
     ELSE IF az.i < Len(az.to_analyze)
     THEN LET batch == PySlice(az.to_analyze, az.i, az.i + az.batch_size)
          IN \E json \in BOOLEAN, entries \in [Cards -> BatchEntries],
                single \in [Cards -> SingleAnswers] :
               LET out == analyze_cards_batch(batch, json, entries, single,
                            [results |-> <<>>, singles |-> az.singles,
                             store |-> chunks])
               IN /\ az' = [az EXCEPT
                       !.batched = Keyed(@, out.results),
                       !.singles = out.singles,
                       !.groups = IF batch = <<>> THEN @ ELSE Append(@, batch),
                       !.missing = IF HasContext(chunks) /\ json
                                   THEN @ \cup {c \in Range(batch) :
                                                  entries[c] = "missing"}
                                   ELSE @,
                       !.i = IF @ + az.batch_size < -MaxDrift THEN -1
                             ELSE @ + az.batch_size]
                  /\ chunks' = out.store
     ELSE /\ az' = [az EXCEPT !.pc = "act"]
          /\ UNCHANGED chunks
  /\ UNCHANGED <<now, dbVars, cardList, run, ops, auxVars, labelVars, uploads,
                 parseVars, stats, other, sessionError>>

\* lines 116-127 and 207: one iteration of the loop over the queued cards (the
\* result of the batch, or a single analysis when it has none), or its end
ResultStep ==
  /\ az.pc = "act"
  /\ IF az.cid_index < Len(az.to_analyze)
     THEN LET cid == az.to_analyze[az.cid_index + 1]
              got == {b \in az.batched : b.card_id = cid}
          IN \E answer \in SingleAnswers :
               LET out == IF got # {}
                          THEN [results |-> <<CHOOSE b \in got : TRUE>>,
                                singles |-> az.singles, store |-> chunks]
                          ELSE single_analysis(cid, answer,
                                 [results |-> <<>>, singles |-> az.singles,
                                  store |-> chunks])
               IN /\ az' = [az EXCEPT !.results = Append(@, out.results[1]),
                                      !.singles = out.singles,
                                      !.cid_index = @ + 1]
                  /\ chunks' = out.store
     ELSE /\ az' = [az EXCEPT !.pc = "done"]
          /\ UNCHANGED chunks
  /\ UNCHANGED <<now, dbVars, cardList, run, ops, auxVars, labelVars, uploads,
                 parseVars, stats, other, sessionError>>

NextBatch == QueueCards \/ BatchStep \/ ResultStep

\* ------------------------------------------------------ StatisticsService
\* sizes of the databases global_stats is applied to
MaxStatSessions == 2
MaxStatBoards == 3
MaxStatHistory == 2

\* the rows of History x AnalyseBoard x Analyse that the two joins of
\* total_reanalyses produce and the filter reanalyse IS TRUE keeps
ReanalysisJoin(hist, bds, ans) ==
  {<<h, b, a>> \in hist \X bds \X ans :
     /\ h.analyse_id = b.analyse_id
     /\ b.analyse_id = a.analyse_id
     /\ a.reanalyse}

\* StatisticsService.global_stats: the counts of the returned dict
\* (reanalysis_rate and by_board repeat them per cent and per board name)
global_stats(tks, hist, bds, ans) ==
  LET total_analyses == Cardinality(hist)
      total_reanalyses == Cardinality(ReanalysisJoin(hist, bds, ans))
      count(level) == Cardinality({h \in hist : h.criticality_level = level})
  IN [total_tickets |-> Cardinality(tks),
      total_analyses |-> total_analyses,
      initial_analyses |-> total_analyses - total_reanalyses,
      reanalyses |-> total_reanalyses,
      criticality_distribution |->
        [high |-> count("high"), medium |-> count("medium"), low |-> count("low")]]

\* GET of the statistics: global_stats on the committed tables
GlobalStats ==
  /\ stats' = Some(global_stats(tickets, history, boards, analyses))
  /\ UNCHANGED <<now, dbVars, cardList, run, ops, auxVars, labelVars, uploadVars,
                 parseVars, other, az, sessionError>>

NextStats == GlobalStats

\* the reanalyse flag of each session of a database, by analyse_id
StatSessions == UNION {[1..k -> BOOLEAN] : k \in 1..MaxStatSessions}

\* the databases global_stats is applied to: sessions (AnalyseSessionService.
\* create_session with either flag, the agent, reanalyze), each owning any
\* number of AnalyseBoard rows (link_board, create_analyse_board), and History
\* rows of one ticket written under a session that owns a board
StatTables ==
  \E flags \in StatSessions, nb \in 0..MaxStatBoards, nh \in 0..MaxStatHistory :
    \E owner \in [1..nb -> DOMAIN flags] :
      \E hs \in [1..nh -> {a \in DOMAIN flags : \E b \in 1..nb : owner[b] = a}
                            \X criticality_level_enum] :
        /\ analyses = {[analyse_id |-> a,
                        reference |-> <<IF flags[a] THEN "REANALYSE" ELSE "ANALYSE", a>>,
                        reanalyse |-> flags[a]] : a \in DOMAIN flags}
        /\ boards = {[id |-> b, analyse_id |-> owner[b]] : b \in 1..nb}
        /\ history = {[id |-> k, ticket_id |-> 1, analyse_id |-> hs[k][1],
                       criticality_level |-> hs[k][2], just |-> TRUE,
                       analyzed_at |-> 0] : k \in 1..nh}
        /\ tickets = IF nh = 0 THEN {}
                     ELSE {[id_ticket |-> 1, ticket_id |-> "c1",
                            analyse_board_id |->
                              CHOOSE b \in 1..nb : owner[b] = hs[1][1],
                            meta |-> NewMeta("L1")]}
        /\ nextId = [ticket |-> IF nh = 0 THEN 1 ELSE 2, history |-> nh + 1,
                     analyse |-> Len(flags) + 1, board |-> nb + 1]

InitLabels ==
  /\ cardLabels = {} /\ boardLabels = <<>>
  /\ labelCall = NoLabelCall
InitUploads == /\ chunks = {} /\ uploads = <<>>

Init ==
  /\ now = 0
  /\ configs = <<>>
  /\ analyses = {} /\ boards = {} /\ tickets = {} /\ history = {}
  /\ nextId = [ticket |-> 1, history |-> 1, analyse |-> 1, board |-> 1]
  /\ cardList = [c \in Cards |-> "L1"]
  /\ run = IdleRun
  /\ ops = [runs |-> 0, reanalyses |-> 0, config |-> 0]
  /\ jsonTracking = "unknown"
  /\ sqlMode = "unknown"
  /\ okSince = {} /\ okBefore = {}
  /\ InitLabels
  /\ InitUploads
  /\ InitParse
  /\ stats = None
  /\ other = IdleRun
  /\ az = IdleAnalysis
  /\ sessionError = "none"

\* a database with sessions, boards and History rows; nothing in progress
InitStats ==
  /\ now = 0
  /\ configs = <<>>
  /\ StatTables
  /\ cardList = [c \in Cards |-> "L1"]
  /\ run = IdleRun
  /\ ops = [runs |-> 0, reanalyses |-> 0, config |-> 0]
  /\ jsonTracking = "unknown"
  /\ sqlMode = "unknown"
  /\ okSince = {} /\ okBefore = {}
  /\ InitLabels
  /\ InitUploads
  /\ InitParse
  /\ stats = None
  /\ other = IdleRun
  /\ az = IdleAnalysis
  /\ sessionError = "none"

Next ==
  \/ Tick \/ ConfigCreate \/ SetTargetList
  \/ StartRun \/ FetchOk \/ FetchFail \/ Classify \/ Batch \/ Act
  \/ Label \/ LabelFail \/ Comment \/ CommentFail \/ Move \/ MoveFail
  \/ Persist \/ CommitRun \/ CommitFail \/ Finish
  \/ Reanalyze \/ ReanalyzeNotFound \/ ReanalyzeClash
  \/ ClearTicket \/ ClearAll

Spec == Init /\ [][Next]_vars

\* analyze_list runs on a board with one Config per list
NextRoute ==
  \/ ConfigCreateForList
  \/ StartRun \/ FetchOk \/ Classify \/ Batch \/ Act
  \/ Label \/ Comment \/ Move \/ Persist \/ CommitRun \/ Finish

SpecRoute == Init /\ [][NextRoute]_vars

\* ================================================================== claims
\* the session (Analyse row id) of the run in progress, as an option
RunAnalyseId == ScopeAnalyseId(boards, run.scope)

\* the sessions created for analyze_list runs and by reanalyze
BulkSessions == {a.analyse_id : a \in {b \in analyses : ~b.reanalyse}}
ReanalyseSessions == {a.analyse_id : a \in {b \in analyses : b.reanalyse}}

\* C1: after any sequence of scoped analyze_list runs and reanalyze calls no
\* two Ticket rows, committed or flushed by the run in progress, have the same
\* externalId (ticket_id): a tracked card is given no second row.
C1_UniqueExternalId ==
  \A t, u \in tickets \cup run.sT :
    t.ticket_id = u.ticket_id => t.id_ticket = u.id_ticket

\* C1 witness: a card was persisted by two analyze_list runs and by a
\* reanalyze, and still has its one Ticket row
C1_Reobserved ==
  \E t \in tickets :
    /\ \E h1, h2 \in history :
         /\ h1.ticket_id = t.id_ticket /\ h2.ticket_id = t.id_ticket
         /\ h1.analyse_id # h2.analyse_id
         /\ {h1.analyse_id, h2.analyse_id} \subseteq BulkSessions
    /\ \E h3 \in history :
         h3.ticket_id = t.id_ticket /\ h3.analyse_id \in ReanalyseSessions

\* C2: no step of analyze_list, reanalyze, update_ticket_list, clear_ticket
\* or clear_all removes or changes a stored History row: every row of the
\* table is still there after the step, and no row of the table after the
\* step has the id of an old row with other fields.
C2_HistoryAppendOnly ==
  [][\A h \in history :
       /\ h \in history'
       /\ \A g \in history' : g.id = h.id => g = h]_vars

\* C2 witness: History rows of a run and of a reanalyze are stored next to a
\* ticket that update_ticket_list has written
C2_HistoryGrown ==
  /\ \E h \in history : h.analyse_id \in BulkSessions
  /\ \E h \in history : h.analyse_id \in ReanalyseSessions
  /\ \E t \in tickets : t.meta.last_moved_at # None
  /\ Cardinality(history) >= 3

\* the results the run in progress reports for a card
ResultsOf(c) == {res \in Range(run.results) : res.card_id = c}

\* the History rows written under the session of the run in progress
RunHistory ==
  IF RunAnalyseId = None THEN {}
  ELSE {h \in ViewHistory(run) : h.analyse_id = RunAnalyseId[1]}

\* the History rows of the run in progress for a card
RunHistoryOf(c) ==
  {h \in RunHistory :
     \E t \in ViewTickets(run) : t.ticket_id = c /\ t.id_ticket = h.ticket_id}

\* the board calls the run in progress made for a card
BoardCallsOf(c) == {k \in 1..Len(run.log) : run.log[k][2] = c}

\* C3: in a scoped analyze_list run over a list, a card that an earlier
\* finished scoped run over the same list analyzed successfully, with the
\* Config unchanged since, is reported from_cache: true, is not sent to the
\* Analyzer, gets no History row of this run and no label, comment or move.
C3_SecondRunFromCache ==
  (run.scope # 0 /\ get_config_by_board(configs, BoardId) # None) =>
    \A c \in Cards :
      <<c, run.list_id>> \in okSince =>
        /\ c \notin Range(run.to_analyze)
        /\ \A res \in ResultsOf(c) : res.from_cache
        /\ RunHistoryOf(c) = {}
        /\ BoardCallsOf(c) = {}

\* two JSON objects with the same keys and the same value under each key
SameJson(d, e) == \A k \in Range(ConfigKeysSorted) : d[k] = e[k]

\* C4: whenever the run in progress has reported a card from_cache: true,
\* the Config payload in force for the board and the last_analysis_config
\* stored on the card's Ticket are the same JSON object.
C4_FromCacheConfigEqual ==
  \A res \in Range(run.results) :
    res.from_cache =>
      LET t == get_by_ticket_id(ViewTickets(run), res.card_id)
          cfg == get_config_by_board(configs, BoardId)
      IN /\ t # None /\ cfg # None
         /\ t[1].meta.last_analysis_config # None
         /\ SameJson(cfg[1], t[1].meta.last_analysis_config[1])

\* C4 witness: a run has returned its summary with a from_cache result
C4_CacheHitReported ==
  /\ run.pc = "done" /\ run.ret = "summary"
  /\ \E res \in Range(run.results) : res.from_cache

\* levels that lead to board actions
ActionLevels == {"HIGH", "MEDIUM", "LOW"}

\* C5: when a scoped run returns its summary, every card of it that a
\* scoped run had analyzed successfully before targetListId was set on the
\* Config (and no run since) is reported without from_cache, and when its
\* new analysis succeeded with a level HIGH, MEDIUM or LOW it has exactly one
\* History row of this run, is in the target list, and its Ticket has
\* metadata.list_id equal to the target list id.
C5_TargetSetReanalyzes ==
  (run.pc = "done" /\ run.ret = "summary" /\ run.scope # 0) =>
    \A c \in Range(run.cards) :
      <<c, run.list_id>> \in okBefore =>
        \A res \in ResultsOf(c) :
          /\ ~res.from_cache
          /\ (res.success /\ res.level \in ActionLevels) =>
               LET target == Get(get_config_by_board(configs, BoardId)[1],
                                 "targetListId")
               IN /\ Cardinality(RunHistoryOf(c)) = 1
                  /\ cardList[c] = target
                  /\ \A t \in tickets : t.ticket_id = c => t.meta.list_id = target

BoardCalls == {"add_label", "add_comment", "move_card"}

\* C9: analyze_list never ends with an exception of add_label, add_comment
\* or move_card: when it is over it has returned its summary with a result
\* for every fetched card, or {error} for a failed fetch (the failure of the
\* final commit is left aside).
C9_BoardFailureContained ==
  (run.pc = "done" /\ run.exc # "commit") =>
    /\ run.ret \in {"summary", "error"}
    /\ run.ret = "summary" => \A c \in Range(run.cards) : ResultsOf(c) # {}

\* the rows the run in progress has written that a reader can see
RunRowsVisible ==
  {h \in history : RunAnalyseId # None /\ h.analyse_id = RunAnalyseId[1]}
  \cup {t \in tickets : t.analyse_board_id = run.scope}

\* C10: while a scoped analyze_list run has not reached its final commit, no
\* History row and no new Ticket row of the run is in the committed tables.
C10_NoPartialVisibility ==
  (run.scope # 0 /\ run.pc \notin {"commit", "done"}) => RunRowsVisible = {}

\* the name of the priority label of a level, whatever its letter case
PriorityNameOf(level) ==
  CASE level \in {"HIGH", "high"} -> "Priority - High"
    [] level \in {"MEDIUM", "medium"} -> "Priority - Medium"
    [] level \in {"LOW", "low"} -> "Priority - Low"

\* the labels on the card that bear one of the three priority names
PriorityLabelsOnCard ==
  {id \in cardLabels :
     boardLabels[id] \in {"Priority - High", "Priority - Medium", "Priority - Low"}}

\* C7: after add_label(card, board, L) has returned, and until a user edits
\* the labels again, the card carries exactly one label with a priority name
\* and that label is named Priority - L.
C7_OnePriorityLabel ==
  labelCall.ret = "ok" =>
    /\ Cardinality(PriorityLabelsOnCard) = 1
    /\ \A id \in PriorityLabelsOnCard :
         boardLabels[id] = PriorityNameOf(labelCall.level)

\* C7 witness: add_label returned for a card that carried two priority labels
\* and another label, which it still carries
C7_ReplacedTwo ==
  /\ labelCall.ret = "ok"
  /\ Cardinality(labelCall.before) = 2
  /\ \E id \in cardLabels : boardLabels[id] = "Bug"

\* C8: of two uploads with the same content, whatever their filenames, the
\* later one answers no other documentId than the one the earlier, stored
\* upload answered (a refusal without documentId is let pass), and puts no
\* chunk of its own in the collection.
C8_SameBytesSameDocument ==
  \A i, j \in 1..Len(uploads) :
    (/\ i < j
     /\ uploads[i].content = uploads[j].content
     /\ uploads[i].status = 200) =>
      /\ uploads[j].document_id \in {None, uploads[i].document_id}
      /\ \A ch \in chunks : ch.document_id # j

\* the cards the run in progress has moved on the board
MovedCards == {run.log[k][2] : k \in {j \in 1..Len(run.log) : run.log[j][1] = "move"}}

\* C11: when the commit at the end of a scoped analyze_list run has failed,
\* no History row and no new Ticket row of the run is in the committed
\* tables, and every card the run moved is still in the target list.
C11_CommitFailureRollsBack ==
  (run.pc = "done" /\ run.exc = "commit" /\ run.scope # 0) =>
    /\ RunRowsVisible = {}
    /\ \A c \in MovedCards : MoveTarget # None /\ cardList[c] = MoveTarget[1]

\* C13: every History row, committed or flushed by the run in progress,
\* written by analyze_list or by reanalyze, has a criticality that is one of
\* high, medium, low in lower case.
C13_LowercaseLevels ==
  \A h \in ViewHistory(run) : h.criticality_level \in {"high", "medium", "low"}

\* C14: a card for which the Analyzer answered OUT_OF_CONTEXT in the run in
\* progress has no label, comment or move made by the run and no History row
\* written under the run's session.
C14_OutOfContextUntouched ==
  \A res \in Range(run.results) :
    (~res.from_cache /\ res.level = "OUT_OF_CONTEXT") =>
      /\ BoardCallsOf(res.card_id) = {}
      /\ RunHistoryOf(res.card_id) = {}

\* the card has a committed Ticket row / a committed Ticket row with History
Tracked(tk, c) == \E t \in tk : t.ticket_id = c
Evaluated(tk, hi, c) ==
  \E t \in tk : t.ticket_id = c /\ \E h \in hi : h.ticket_id = t.id_ticket

\* C15: in every step (of analyze_list with its update_ticket_list, of
\* reanalyze, of the cache clears) a card that has a Ticket row still has one
\* afterwards, and a card whose Ticket has a History row still has one.
C15_Monotonic ==
  [][\A c \in Cards :
       /\ Tracked(tickets, c) => Tracked(tickets', c)
       /\ Evaluated(tickets, history, c) => Evaluated(tickets', history', c)]_vars

\* a ticket that was reanalyzed is still tracked and evaluated after the last
\* analyze_list run ended with an exception
C15_TrackedThroughFailures ==
  /\ run.pc = "done" /\ run.ret = "raised" /\ ops.runs = MaxRuns
  /\ \E c \in Cards : Evaluated(tickets, {h \in history :
                                  h.analyse_id \in ReanalyseSessions}, c)

\* C16: the step in which get_list_cards fails (the run leaves the fetch
\* without the summary of an empty list) returns {error} without raising, with
\* no Analyzer result, no board call and no row in the session, and leaves
\* the Ticket and History tables and the board as they were.
C16_FetchFailureReturnsError ==
  [][(run.pc = "fetch" /\ run'.pc = "done" /\ run'.ret # "summary") =>
       /\ run'.ret = "error" /\ run'.exc = "none"
       /\ run'.results = <<>> /\ run'.batched = {} /\ run'.log = <<>>
       /\ run'.sT = {} /\ run'.sH = {} /\ run'.saved = <<>>
       /\ UNCHANGED <<tickets, history, cardList>>]_vars

\* a fetch failure of a run that started with rows in both tables
C16_FetchFailed ==
  /\ run.pc = "done" /\ run.ret = "error"
  /\ tickets # {} /\ history # {}

\* the results of the run in progress that the Analyzer failed on
FailedResults == {res \in Range(run.results) : ~res.from_cache /\ ~res.success}

\* C17: a card for which the batch call and the single-card analysis both
\* failed is reported with success = false, gets no board call and no History
\* row of the run; and in a run with such a card that returned its summary,
\* every other card the Analyzer answered for has its label when it is
\* actionable and, in a scoped run, a committed History row of the run.
C17_FailedCardSkipped ==
  /\ \A res \in FailedResults :
       BoardCallsOf(res.card_id) = {} /\ RunHistoryOf(res.card_id) = {}
  /\ (run.pc = "done" /\ run.ret = "summary" /\ FailedResults # {}) =>
       \A res \in Range(run.results) \ FailedResults :
         ~res.from_cache =>
           /\ Actionable(res) =>
                res.label_added /\ <<"label", res.card_id>> \in Range(run.log)
           /\ run.scope # 0 =>
                \E h \in history \cap RunHistoryOf(res.card_id) : TRUE

\* a scoped run returned its summary with one failed card and one card that
\* was labelled and has its History row
C17_FailedAmongOthers ==
  /\ run.pc = "done" /\ run.ret = "summary" /\ run.scope # 0
  /\ FailedResults # {}
  /\ \E res \in Range(run.results) :
       /\ Actionable(res) /\ res.label_added
       /\ history \cap RunHistoryOf(res.card_id) # {}

LevelsFound == {l \in {"HIGH", "MEDIUM", "LOW"} :
                  Contains(StrUpper(Strip(response)), LevelText(l))}

\* C20 (as stated): for a parsed response without OUT_OF_CONTEXT the level is
\* the one of HIGH, MEDIUM, LOW whose name occurs first in the upper-cased
\* text, and LOW when none occurs.
C20_FirstOccurrenceWins ==
  (parsed \notin {"none", "pending"}
     /\ ~Contains(StrUpper(Strip(response)), Word_OUT_OF_CONTEXT)) =>
    IF LevelsFound = {} THEN parsed = "LOW"
    ELSE /\ parsed \in LevelsFound
         /\ \A l \in LevelsFound :
              FirstIndex(StrUpper(Strip(response)), LevelText(parsed))
                <= FirstIndex(StrUpper(Strip(response)), LevelText(l))

\* C20 (amended): for a parsed response without OUT_OF_CONTEXT the level is
\* HIGH when HIGH occurs anywhere in the upper-cased text, otherwise MEDIUM
\* when MEDIUM occurs, otherwise LOW, wherever the names stand in the text.
C20_PrecedenceWins ==
  (parsed \notin {"none", "pending"}
     /\ ~Contains(StrUpper(Strip(response)), Word_OUT_OF_CONTEXT)) =>
    /\ parsed = "HIGH" <=> "HIGH" \in LevelsFound
    /\ parsed = "MEDIUM" <=> ("MEDIUM" \in LevelsFound /\ "HIGH" \notin LevelsFound)
    /\ parsed = "LOW" <=> LevelsFound \subseteq {"LOW"}

\* a response in which LOW stands before HIGH was parsed as HIGH
C20_LaterHighParsed ==
  /\ parsed = "HIGH"
  /\ ~Contains(StrUpper(Strip(response)), Word_OUT_OF_CONTEXT)
  /\ "LOW" \in LevelsFound
  /\ FirstIndex(StrUpper(Strip(response)), LevelText("LOW"))
       < FirstIndex(StrUpper(Strip(response)), LevelText("HIGH"))

\* the History rows whose session has reanalyse = true
ReanalysisRows ==
  {h \in history : \E a \in analyses : a.analyse_id = h.analyse_id /\ a.reanalyse}

\* C19: what global_stats returned on the database holds reanalyses equal to
\* the number of History rows whose session has reanalyse = true, and
\* initial_analyses equal to total_analyses minus that number, with
\* 0 <= reanalyses <= total_analyses, however many AnalyseBoard rows a
\* session owns.
C19_ReanalysesCounted ==
  stats # None =>
    /\ stats[1].reanalyses = Cardinality(ReanalysisRows)
    /\ stats[1].initial_analyses = stats[1].total_analyses - Cardinality(ReanalysisRows)
    /\ 0 <= stats[1].reanalyses /\ stats[1].reanalyses <= stats[1].total_analyses

\* the committed History rows a call wrote for a card under its session
HistoryBy(r, c) ==
  {h \in history :
     /\ ScopeAnalyseId(boards, r.scope) = Some(h.analyse_id)
     /\ \E t \in tickets : t.ticket_id = c /\ t.id_ticket = h.ticket_id}

\* two scoped calls over the same list have both ended, the Analyzer having
\* answered OUT_OF_CONTEXT for no card
PairDone ==
  /\ run.pc = "done" /\ other.pc = "done"
  /\ run.scope # 0 /\ other.scope # 0 /\ run.list_id = other.list_id
  /\ \A r \in {run, other} : \A res \in Range(r.results) :
       res.level # "OUT_OF_CONTEXT"

\* C12: when two scoped analyze_list calls over the same list, started on
\* empty tables and served by two workers, have both ended, no externalId has
\* two Ticket rows, and every card a call analyzed itself with success has
\* its Ticket row and a History row written under that call's session.
C12_InterleavedRunsPersist ==
  PairDone =>
    /\ \A c \in Cards : Cardinality({t \in tickets : t.ticket_id = c}) <= 1
    /\ \A r \in {run, other} : \A res \in Range(r.results) :
         (res.success /\ ~res.from_cache) => HistoryBy(r, res.card_id) # {}

\* positions in the log of the run in progress of a board call on a card
LogAt(call, c) == {k \in 1..Len(run.log) : run.log[k] = <<call, c>>}

\* C21: for every card of the run in progress the label call has returned
\* before the comment call is made and both before the move call; a card
\* under work has its label before the run is at its comment, and its label
\* and (when it has a justification) its comment before the run is at its move.
C21_LabelCommentMoveOrder ==
  /\ \A c \in Cards :
       /\ \A k \in LogAt("comment", c) : \E j \in LogAt("label", c) : j < k
       /\ \A k \in LogAt("move", c) :
            /\ \E j \in LogAt("label", c) : j < k
            /\ \A j \in LogAt("comment", c) : j < k
       /\ Cardinality(LogAt("label", c)) <= 1
       /\ Cardinality(LogAt("comment", c)) <= 1
       /\ Cardinality(LogAt("move", c)) <= 1
  /\ run.pc \in {"comment", "move"} => Cur(run).label_added
  /\ (run.pc = "move" /\ Cur(run).just) => Cur(run).comment_added

\* a card of the run has been labelled, commented and moved
C21_AllThreeActions ==
  \E c \in Cards :
    LogAt("label", c) # {} /\ LogAt("comment", c) # {} /\ LogAt("move", c) # {}

\* C22: when the analysis phase has ended, cards_analysis holds exactly one
\* entry per fetched card; when the batch loop has ended, every queued card was
\* sent in exactly one batch of at most ANALYSIS_BATCH_SIZE cards; and a card
\* whose id was missing from a batch answer was analyzed alone exactly once
C22_BatchedExactlyOnce ==
  /\ az.pc = "done" =>
       /\ Len(az.results) = Len(az.to_analyze)
       /\ \A c \in Range(az.to_analyze) :
            Cardinality({k \in 1..Len(az.results) : az.results[k].card_id = c}) = 1
  /\ az.pc \in {"act", "done"} =>
       /\ \A c \in Range(az.to_analyze) :
            Cardinality({g \in 1..Len(az.groups) : c \in Range(az.groups[g])}) = 1
       /\ \A g \in 1..Len(az.groups) : Len(az.groups[g]) <= az.batch_size
  /\ az.pc \in {"act", "done"} => \A c \in az.missing : az.singles[c] = 1

\* C24: from the moment the cards are queued, the chunks of the collection are
\* the ones it held before the run
C24_GroundingStoreUnchanged ==
  az.pc # "idle" => chunks = az.store0

\* C29: the analysis phase of analyze_list ends, by returning or by raising,
\* whatever the batch size
C29_Terminates ==
  <>(az.pc \in {"done", "raised"})

\* C23: with several Configs of the board, one per list, a card that the run in progress
\* moved is in the target list of the Config whose listId is the list the run
\* analyzes; when that Config has no target list the run moves no card
C23_MovedToTargetOfOwnList ==
  Len(configs) > 1 /\ run.pc # "idle" =>
    \A c \in Cards :
      LogAt("move", c) # {} =>
        \E k \in 1..Len(configs) :
          /\ Get(configs[k], "listId") = run.list_id
          /\ Get(configs[k], "targetListId") = cardList[c]

C26_ExistingTicketReturnedAsIs ==
  [][/\ \A t \in ViewTickets(run), l \in Lists,
           s \in {0} \cup {b.id : b \in boards} :
           ensure_ticket(ViewTickets(run), s, t.ticket_id, l, nextId.ticket) = t
     /\ \A t \in tickets, u \in tickets' :
           u.id_ticket = t.id_ticket => u.analyse_board_id = t.analyse_board_id]_vars

\* C26 witness: a Ticket row has a committed History row written by a later
\* analyze_list run under another board scope, and is still bound to the scope
\* of its first observation
C26_PersistedUnderAnotherScope ==
  \E t \in tickets, h \in history, b \in boards :
    /\ h.ticket_id = t.id_ticket
    /\ h.analyse_id \in BulkSessions
    /\ b.analyse_id = h.analyse_id
    /\ b.id # t.analyse_board_id

\* what the classify loop of a run decides for a card on the committed tables:
\* a tracked card with a cache valid for the Config and a History row is
\* reported from_cache and not sent to the Analyzer
ReportedFromCache(c) ==
  LET existing == get_by_ticket_id(tickets, c)
  IN /\ existing # None
     /\ _is_cache_valid_for_config(existing[1], configs, BoardId)
     /\ LastHistoryCandidates(history, existing[1].id_ticket) # {}

C28_SessionCreationSucceeds ==
  /\ sessionError = "none"
  /\ \A a, b \in analyses : a.reference = b.reference => a.analyse_id = b.analyse_id

\* C30: in every state, for every Ticket row and every result of the Analyzer
\* with success = false, the rows reanalyze adds are one session with
\* reanalyse = true, one board scope of that session, and one History row of
\* the ticket under that session with the fallback level, stored as low
C30_FailedReanalysisRecorded ==
  \A t \in tickets, o \in ReanalyzerOutcomes :
    ~o.success =>
      LET rows == reanalyze_rows(t, o, nextId, now)
      IN /\ o.level = "LOW"
         /\ Cardinality(rows.sessions) = 1
         /\ \A a \in rows.sessions : a.reanalyse /\ a.analyse_id = nextId.analyse
         /\ rows.boards = {[id |-> nextId.board, analyse_id |-> nextId.analyse]}
         /\ Cardinality(rows.history) = 1
         /\ \A h \in rows.history :
              /\ h.ticket_id = t.id_ticket
              /\ h.analyse_id = nextId.analyse
              /\ h.criticality_level = "low"

\* C30 witness: a reanalyze whose Analyzer call failed has committed its rows:
\* a History row with level low under a session with reanalyse = true that
\* has a board scope, for a ticket a run had stored
C30_FallbackRowStored ==
  \E h \in history, b \in boards, t \in tickets :
    /\ h.analyse_id \in ReanalyseSessions
    /\ h.criticality_level = "low"
    /\ b.analyse_id = h.analyse_id
    /\ t.id_ticket = h.ticket_id

\* add_label against a board and a card that users also edit
SpecLabel == Init /\ [][NextLabel]_vars

\* the upload route against the Chroma collection
SpecUpload == Init /\ [][NextUpload]_vars

\* two analyze_list calls served by two workers, the board answering every call
NextPair ==
  \/ ConfigCreate \/ SetTargetList
  \/ StartRun \/ FetchOk \/ Classify \/ Batch \/ Act
  \/ Label \/ Comment \/ Move \/ Persist \/ InsertResolved
  \/ CommitRun \/ Finish \/ Switch

SpecPair == Init /\ [][NextPair]_vars

\* a database after one scoped run that persisted card c1
InitSession ==
  /\ now = 0
  /\ configs = <<>>
  /\ analyses = {[analyse_id |-> 1, reference |-> <<"ANALYSE", 1>>,
                  reanalyse |-> FALSE]}
  /\ boards = {[id |-> 1, analyse_id |-> 1]}
  /\ tickets = {ensure_ticket({}, 1, "c1", "L1", 1)}
  /\ history = {[id |-> 1, ticket_id |-> 1, analyse_id |-> 1,
                 criticality_level |-> "high", just |-> TRUE, analyzed_at |-> 0]}
  /\ nextId = [ticket |-> 2, history |-> 2, analyse |-> 2, board |-> 2]
  /\ cardList = [c \in Cards |-> "L1"]
  /\ run = IdleRun
  /\ ops = [runs |-> 1, reanalyses |-> 0, config |-> 0]
  /\ jsonTracking = "unknown"
  /\ sqlMode = "unknown"
  /\ okSince = {} /\ okBefore = {}
  /\ InitLabels
  /\ InitUploads
  /\ InitParse
  /\ stats = None
  /\ other = IdleRun
  /\ az = IdleAnalysis
  /\ sessionError = "none"

\* sessions created one after the other, by create_session and by reanalyze
SpecSession == InitSession /\ [][NextSession]_vars

\* the collection before an analysis: empty, or holding an uploaded document
InitBatch ==
  /\ now = 0
  /\ configs = <<>>
  /\ analyses = {} /\ boards = {} /\ tickets = {} /\ history = {}
  /\ nextId = [ticket |-> 1, history |-> 1, analyse |-> 1, board |-> 1]
  /\ cardList = [c \in Cards |-> "L1"]
  /\ run = IdleRun
  /\ ops = [runs |-> 0, reanalyses |-> 0, config |-> 0]
  /\ jsonTracking = "unknown"
  /\ sqlMode = "unknown"
  /\ okSince = {} /\ okBefore = {}
  /\ InitLabels
  /\ \E docs \in {{}, vectorize_and_store("x", "a.txt", 1),
                   vectorize_and_store("y", "b.txt", 1)} :
       /\ chunks = docs
       /\ uploads = IF docs = {} THEN <<>>
                    ELSE <<[filename |-> (CHOOSE ch \in docs : TRUE).filename,
                            content |-> IF Cardinality(docs) = 1 THEN "x" ELSE "y",
                            status |-> 200, document_id |-> Some(1)]>>
  /\ InitParse
  /\ stats = None
  /\ other = IdleRun
  /\ az = IdleAnalysis
  /\ sessionError = "none"

\* the analysis phase of analyze_list over a queue of untracked cards
SpecBatch == InitBatch /\ [][NextBatch]_vars

\* the same, every step that can be taken being taken eventually
SpecBatchLive == InitBatch /\ [][NextBatch]_vars /\ WF_vars(NextBatch)

\* global_stats applied to a database
SpecStats == InitStats /\ [][NextStats]_vars

\* the parsing of a single-card answer of the LLM
SpecParse == Init /\ [][NextParse]_vars
====
